---- MODULE Spec2Model ----
(***************************************************************************)
(* A model of the VulkanStarter renderer start-up and event loop.          *)
(*                                                                         *)
(* Two entry points exist in the sources and both are modelled:            *)
(*   "Application"  Application::initialize followed by main_loop, the     *)
(*                  path taken by main (src/src/main.rs, application.rs);  *)
(*   "Display"      Display::create (src/src/display/mod.rs), built from   *)
(*                  the free functions of application/device.rs,           *)
(*                  display/device/queue_family_indices.rs and             *)
(*                  application/swapchain.rs.                              *)
(*                                                                         *)
(* The environment (the physical devices the instance enumerates, what the *)
(* surface reports for each, the window's physical size) is chosen in Init *)
(* and does not change afterwards: every query gives the same answer each  *)
(* time it is asked.                                                       *)
(***************************************************************************)
EXTENDS Integers, Sequences, FiniteSets, TLC

(***************************************************************************)
(* Bounds of the model.                                                    *)
(***************************************************************************)
MaxFamilies == 3
MaxDevices == 2
MaxImageCount == 4
MaxExtent == 2
MaxFormats == 2

(***************************************************************************)
(* Rust's Option and Result: None / Err carry nothing, Some / Ok one value.*)
(***************************************************************************)
None == <<>>
Some(x) == <<x>>
is_some(o) == o # None
unwrap(o) == o[1]

Min(a, b) == IF a <= b THEN a ELSE b
Max(a, b) == IF a >= b THEN a ELSE b

SeqsUpTo(S, n) == UNION {[1..k -> S] : k \in 0..n}

(***************************************************************************)
(* The environment's values.                                               *)
(*                                                                         *)
(* A queue family: whether it supports graphics, and what                  *)
(* surface.is_supported(family) answers for it (the query can fail).       *)
(***************************************************************************)
QueueFamily ==
    [supports_graphics : BOOLEAN, is_supported : {"Ok(true)", "Ok(false)", "Err"}]

GraphicsAndPresent == [supports_graphics |-> TRUE, is_supported |-> "Ok(true)"]
GraphicsOnly == [supports_graphics |-> TRUE, is_supported |-> "Ok(false)"]
PresentOnly == [supports_graphics |-> FALSE, is_supported |-> "Ok(true)"]
GraphicsQueryFails == [supports_graphics |-> TRUE, is_supported |-> "Err"]

Formats == {"B8G8R8A8Srgb", "B8G8R8A8Unorm", "R8G8B8A8Srgb"}
ColorSpaces == {"SrgbNonLinear", "ExtendedSrgbLinear"}
FormatPairs == Formats \X ColorSpaces

\* Scenario A of the specification: no maximum image count, a fixed current
\* extent, one format, FIFO only.
DefaultCapabilities ==
    [min_image_count |-> 2,
     max_image_count |-> None,
     current_extent |-> Some(<<2, 1>>),
     min_image_extent |-> <<1, 1>>,
     max_image_extent |-> <<2, 2>>,
     supported_formats |-> << <<"R8G8B8A8Srgb", "SrgbNonLinear">> >>,
     present_modes |-> {"Fifo"}]

\* A device: its queue families, whether it supports khr_swapchain, and what
\* surface.capabilities(device) answers (None: the query fails).
PhysicalDevice(families, khr_swapchain, capabilities) ==
    [families |-> families,
     khr_swapchain |-> khr_swapchain,
     capabilities |-> capabilities]

DefaultInnerSize == <<2, 1>>

(***************************************************************************)
(* Queue family resolution.                                                *)
(*                                                                         *)
(* The loop shared by QueueFamilyIndices::find and                         *)
(* Application::find_queue_families (the two bodies are the same):         *)
(* families are visited in index order; each visit first overwrites the    *)
(* graphics index when the family supports graphics, then asks the surface *)
(* (an error returns at once), overwrites the present index, and breaks    *)
(* when both are set.  examined counts the families visited, i is the      *)
(* 1-based position, the recorded indices are 0-based as enumerate() gives *)
(* them.                                                                   *)
(***************************************************************************)
RECURSIVE scan_queue_families(_, _, _, _)
scan_queue_families(families, i, graphics, present) ==
    IF i > Len(families)
    THEN [err |-> FALSE, graphics |-> graphics, present |-> present,
          examined |-> Len(families)]
    ELSE LET family == families[i]
             g == IF family.supports_graphics THEN Some(i - 1) ELSE graphics
         IN  IF family.is_supported = "Err"
             THEN [err |-> TRUE, graphics |-> g, present |-> present,
                   examined |-> i]
             ELSE LET p == IF family.is_supported = "Ok(true)"
                           THEN Some(i - 1) ELSE present
                  IN  IF is_some(g) /\ is_some(p)
                      THEN [err |-> FALSE, graphics |-> g, present |-> p,
                            examined |-> i]
                      ELSE scan_queue_families(families, i + 1, g, p)

\* A mutant of the loop: an index once recorded is never overwritten.
RECURSIVE scan_first_match(_, _, _, _)
scan_first_match(families, i, graphics, present) ==
    IF i > Len(families)
    THEN [err |-> FALSE, graphics |-> graphics, present |-> present,
          examined |-> Len(families)]
    ELSE LET family == families[i]
             g == IF family.supports_graphics /\ ~is_some(graphics)
                  THEN Some(i - 1) ELSE graphics
         IN  IF family.is_supported = "Err"
             THEN [err |-> TRUE, graphics |-> g, present |-> present,
                   examined |-> i]
             ELSE LET p == IF family.is_supported = "Ok(true)" /\ ~is_some(present)
                           THEN Some(i - 1) ELSE present
                  IN  IF is_some(g) /\ is_some(p)
                      THEN [err |-> FALSE, graphics |-> g, present |-> p,
                            examined |-> i]
                      ELSE scan_first_match(families, i + 1, g, p)

find_MutantFirstMatch(families) ==
    LET s == scan_first_match(families, 1, None, None)
    IN  [ok |-> ~s.err /\ is_some(s.graphics) /\ is_some(s.present),
         graphics_family |-> s.graphics,
         present_family |-> s.present,
         examined |-> s.examined]

\* A mutant of find: Ok whenever no query failed, a role missing or not.
find_MutantOkIncomplete(families) ==
    LET s == scan_queue_families(families, 1, None, None)
    IN  [ok |-> ~s.err,
         graphics_family |-> s.graphics,
         present_family |-> s.present,
         examined |-> s.examined]

\* A mutant of find: the indices recorded are 1-based positions.
find_MutantOneBased(families) ==
    LET s == scan_queue_families(families, 1, None, None)
        next(o) == IF is_some(o) THEN Some(unwrap(o) + 1) ELSE None
    IN  [ok |-> ~s.err /\ is_some(s.graphics) /\ is_some(s.present),
         graphics_family |-> next(s.graphics),
         present_family |-> next(s.present),
         examined |-> s.examined]

\* QueueFamilyIndices::find: Ok only with both indices (graphics.zip(present)),
\* Err when the surface query failed or an index is missing.
find(families) ==
    LET s == scan_queue_families(families, 1, None, None)
    IN  [ok |-> ~s.err /\ is_some(s.graphics) /\ is_some(s.present),
         graphics_family |-> s.graphics,
         present_family |-> s.present,
         examined |-> s.examined]

\* Application::find_queue_families: Ok(indices) whenever no query failed, the
\* indices complete or not.
find_queue_families(families) ==
    LET s == scan_queue_families(families, 1, None, None)
    IN  [ok |-> ~s.err,
         graphics_family |-> s.graphics,
         present_family |-> s.present,
         examined |-> s.examined]

\* QueueFamilyIndices::is_same_queue, on Option<usize> in application.rs and on
\* usize in queue_family_indices.rs.
is_same_queue(indices) == indices.graphics_family = indices.present_family

\* QueueFamilyIndices::is_complete (application.rs).
is_complete(indices) ==
    is_some(indices.graphics_family) /\ is_some(indices.present_family)

\* A mutant of unique_indices: both indices always, equal or not.
unique_indices_MutantBoth(indices) ==
    <<unwrap(indices.graphics_family), unwrap(indices.present_family)>>

\* QueueFamilyIndices::unique_indices, and the same expression inlined in
\* Application::create_logical_device.
unique_indices(indices) ==
    IF is_same_queue(indices)
    THEN <<unwrap(indices.graphics_family)>>
    ELSE <<unwrap(indices.graphics_family), unwrap(indices.present_family)>>

(***************************************************************************)
(* Device selection.                                                       *)
(***************************************************************************)
\* check_device_extension_support: khr_swapchain of the intersection of the
\* device's extensions with the required ones.
check_device_extension_support(device) == device.khr_swapchain

\* is_device_suitable (application/device.rs).  The three clauses are bound by
\* let in turn, none short-circuits another; .expect panics when the
\* capabilities query fails on a device that supports the extension.
is_device_suitable(device) ==
    LET queue_supported == find(device.families).ok
        extensions_supported == check_device_extension_support(device)
        panics == extensions_supported /\ ~is_some(device.capabilities)
        swap_chain_adequate ==
            IF extensions_supported /\ ~panics
            THEN LET capabilities == unwrap(device.capabilities)
                 IN  /\ capabilities.supported_formats # <<>>
                     /\ capabilities.present_modes # {}
            ELSE FALSE
    IN  [panicked |-> panics,
         value |-> ~panics /\ queue_supported /\ extensions_supported
                           /\ swap_chain_adequate]

\* A mutant of Application::is_device_suitable: a graphics index is enough.
Application_is_device_suitable_MutantGraphicsOnly(device) ==
    LET r == find_queue_families(device.families)
    IN  IF r.ok THEN is_some(r.graphics_family) ELSE FALSE

\* Application::is_device_suitable: complete indices, false on an error.
Application_is_device_suitable(device) ==
    LET r == find_queue_families(device.families)
    IN  IF r.ok THEN is_complete(r) ELSE FALSE

\* The iterator search of pick_physical_device (application/device.rs):
\* devices.iter().find(is_device_suitable) visits the devices in order and
\* stops at the first suitable one; a panic of the predicate ends the search.
\* kind is "Ok" (device holds the 0-based position), "Err" or "Panic";
\* examined counts the devices the predicate was called on.
RECURSIVE pick_from(_, _)
pick_from(devs, i) ==
    IF i > Len(devs)
    THEN [kind |-> "Err", device |-> None, examined |-> Len(devs)]
    ELSE LET s == is_device_suitable(devs[i])
         IN  IF s.panicked
             THEN [kind |-> "Panic", device |-> None, examined |-> i]
             ELSE IF s.value
             THEN [kind |-> "Ok", device |-> Some(i - 1), examined |-> i]
             ELSE pick_from(devs, i + 1)

pick_physical_device(devs) == pick_from(devs, 1)

\* Application::pick_physical_device: devices.iter().position(...).
RECURSIVE Application_pick_from(_, _)
Application_pick_from(devs, i) ==
    IF i > Len(devs)
    THEN [kind |-> "Err", device |-> None, examined |-> Len(devs)]
    ELSE IF Application_is_device_suitable(devs[i])
         THEN [kind |-> "Ok", device |-> Some(i - 1), examined |-> i]
         ELSE Application_pick_from(devs, i + 1)

Application_pick_physical_device(devs) == Application_pick_from(devs, 1)

(***************************************************************************)
(* Logical device and queues.                                              *)
(*                                                                         *)
(* Device::new receives one (family, priority) request per unique index and*)
(* yields one queue per request, in request order.  A queue is identified  *)
(* by its family and its index within that family; with one queue asked of *)
(* each family, every queue has index 0 within its family.                 *)
(***************************************************************************)
Queue(family) == [family |-> family, id_within_family |-> 0]

device_new_queues(requests) == [k \in 1..Len(requests) |-> Queue(requests[k])]

\* QueueFamilyIndices::take_queues, and the same statements at the end of
\* Application::create_logical_device: the first queue is the graphics queue;
\* the present queue is a clone of it for a shared family, else the next one.
take_queues(indices, queues) ==
    [graphics_queue |-> queues[1],
     present_queue |-> IF is_same_queue(indices) THEN queues[1] ELSE queues[2]]

(***************************************************************************)
(* Swapchain configuration.                                                *)
(***************************************************************************)
\* choose_sharing_mode: compares id_within_family of the two queues.
choose_sharing_mode(graphics_queue, present_queue) ==
    LET same_queue ==
            graphics_queue.id_within_family = present_queue.id_within_family
    IN  IF same_queue
        THEN [mode |-> "Exclusive", queue_families |-> <<>>]
        ELSE [mode |-> "Concurrent",
              queue_families |-> <<graphics_queue.id_within_family,
                                   present_queue.id_within_family>>]

\* A mutant of choose_image_count: the maximum is ignored.
choose_image_count_MutantNoCap(capabilities) == capabilities.min_image_count + 1

\* choose_image_count.
choose_image_count(capabilities) ==
    LET suggested_count == capabilities.min_image_count + 1
    IN  IF is_some(capabilities.max_image_count)
        THEN Min(suggested_count, unwrap(capabilities.max_image_count))
        ELSE suggested_count

\* A mutant of choose_swap_surface_format: only the format is compared, the
\* color space is not.
choose_swap_surface_format_MutantFormatOnly(capabilities) ==
    LET formats == capabilities.supported_formats
        hits == {k \in 1..Len(formats) : formats[k][1] = "B8G8R8A8Srgb"}
    IN  IF hits # {}
        THEN formats[CHOOSE k \in hits : \A j \in hits : k <= j]
        ELSE formats[1]

\* choose_swap_surface_format: iter().find(..) gives the first entry equal to
\* (B8G8R8A8Srgb, SrgbNonLinear); unwrap_or_else falls back to entry 0.
choose_swap_surface_format(capabilities) ==
    LET formats == capabilities.supported_formats
        hits == {k \in 1..Len(formats) :
                    /\ formats[k][1] = "B8G8R8A8Srgb"
                    /\ formats[k][2] = "SrgbNonLinear"}
    IN  IF hits # {}
        THEN formats[CHOOSE k \in hits : \A j \in hits : k <= j]
        ELSE formats[1]

\* choose_swap_present_mode.
choose_swap_present_mode(capabilities) ==
    IF "Mailbox" \in capabilities.present_modes THEN "Mailbox" ELSE "Fifo"

\* A mutant of clamp: the lower bound is not applied.
clamp_MutantNoLower(x, lower, upper) == Min(x, upper)

\* clamp.
clamp(x, lower, upper) == Max(lower, Min(x, upper))

\* choose_swap_extent.
choose_swap_extent(physical_size, capabilities) ==
    IF is_some(capabilities.current_extent)
    THEN unwrap(capabilities.current_extent)
    ELSE LET width == clamp(physical_size[1],
                            capabilities.min_image_extent[1],
                            capabilities.max_image_extent[1])
             height == clamp(physical_size[2],
                             capabilities.min_image_extent[2],
                             capabilities.max_image_extent[2])
         IN  <<width, height>>

\* The arguments create_swap_chain hands to Swapchain::new.
create_swap_chain(physical_size, capabilities, graphics_queue, present_queue) ==
    LET swap_format == choose_swap_surface_format(capabilities)
    IN  [image_count |-> choose_image_count(capabilities),
         format |-> swap_format[1],
         color_space |-> swap_format[2],
         extent |-> choose_swap_extent(physical_size, capabilities),
         sharing_mode |-> choose_sharing_mode(graphics_queue, present_queue),
         present_mode |-> choose_swap_present_mode(capabilities)]

(***************************************************************************)
(* The state.                                                              *)
(***************************************************************************)
VARIABLES
    devices,            \* PhysicalDevice::enumerate(&instance), in order
    inner_size,         \* surface.window().inner_size(), physical pixels
    program,            \* the entry point: "Application" or "Display"
    pc,                 \* the stage about to run, or how the program ended
    error,              \* Some(stage) once a stage has returned Err or panicked
    physical_device,    \* Some(position) once a device is picked
    indices,            \* Some(resolved indices) of the picked device
    queue_requests,     \* the family indices handed to Device::new
    graphics_queue,     \* Some(queue) once the logical device exists
    present_queue,
    resolutions,        \* what each queue family resolution so far returned,
                        \* with the position of the device it was asked of
    swapchain,          \* Some(configuration) once the swapchain exists
    framebuffer_images, \* the number of framebuffers built
    control_flow,       \* *control_flow of the event loop
    last_event,         \* Some(event) the closure handled last
    surface_out_of_date,\* the window was resized after start-up: what an
                        \* acquire or a present would report as stale
    render_calls        \* what render() did in the last redraw tick

vars ==
    <<devices, inner_size, program, pc, error, physical_device, indices,
      queue_requests, graphics_queue, present_queue, resolutions, swapchain,
      framebuffer_images, control_flow, last_event, surface_out_of_date,
      render_calls>>

environment == <<devices, inner_size, program>>
logical_device ==
    <<physical_device, indices, queue_requests, graphics_queue, present_queue>>
device_state == <<logical_device, resolutions>>
swapchain_state == <<swapchain, framebuffer_images>>
loop_state == <<control_flow, last_event, surface_out_of_date, render_calls>>

(***************************************************************************)
(* The environments Init draws from.                                       *)
(***************************************************************************)
DefaultDevice ==
    PhysicalDevice(<<GraphicsAndPresent>>, TRUE, Some(DefaultCapabilities))

\* One device: every list of queue families, with or without the extension,
\* the capabilities query failing or reporting formats and modes or none.
AdequacyCapabilities ==
    {None} \cup
    {Some([DefaultCapabilities EXCEPT !.supported_formats = f,
                                      !.present_modes = m]) :
        f \in {<<>>, DefaultCapabilities.supported_formats},
        m \in {{}, {"Fifo"}}}

ResolutionEnvironments ==
    {[devices |-> <<PhysicalDevice(f, e, c)>>, inner_size |-> DefaultInnerSize] :
        f \in SeqsUpTo(QueueFamily, MaxFamilies),
        e \in BOOLEAN,
        c \in AdequacyCapabilities}

\* Several devices, each of one of these kinds.
DeviceKinds ==
    {DefaultDevice,
     PhysicalDevice(<<GraphicsOnly, PresentOnly>>, TRUE, Some(DefaultCapabilities)),
     PhysicalDevice(<<GraphicsAndPresent>>, FALSE, Some(DefaultCapabilities)),
     PhysicalDevice(<<GraphicsAndPresent>>, TRUE, None),
     PhysicalDevice(<<GraphicsOnly>>, TRUE, Some(DefaultCapabilities)),
     PhysicalDevice(<<GraphicsQueryFails, PresentOnly>>, TRUE,
                    Some(DefaultCapabilities))}

EnumerationEnvironments ==
    {[devices |-> d, inner_size |-> DefaultInnerSize] :
        d \in SeqsUpTo(DeviceKinds, MaxDevices)}

\* One suitable device whose surface capabilities vary, one group of fields
\* at a time.  A reported maximum is at least the minimum, and the largest
\* extent is at least the smallest, as the surface guarantees.
ImageCountCapabilities ==
    {c \in {[DefaultCapabilities EXCEPT !.min_image_count = lo,
                                        !.max_image_count = hi] :
                lo \in 1..MaxImageCount,
                hi \in {None} \cup {Some(m) : m \in 1..MaxImageCount}} :
        is_some(c.max_image_count) =>
            c.min_image_count <= unwrap(c.max_image_count)}

FormatCapabilities ==
    {[DefaultCapabilities EXCEPT !.supported_formats = f] :
        f \in SeqsUpTo(FormatPairs, MaxFormats) \ {<<>>}}

PresentModeCapabilities ==
    {[DefaultCapabilities EXCEPT !.present_modes = m] :
        m \in SUBSET {"Immediate", "Mailbox", "Fifo"} \ {{}}}

Extents == (0..MaxExtent) \X (0..MaxExtent)

ExtentCapabilities ==
    {[DefaultCapabilities EXCEPT !.current_extent = Some(e)] : e \in Extents}
    \cup
    {c \in {[DefaultCapabilities EXCEPT !.current_extent = None,
                                        !.min_image_extent = lo,
                                        !.max_image_extent = hi] :
                lo \in Extents, hi \in Extents} :
        /\ c.min_image_extent[1] <= c.max_image_extent[1]
        /\ c.min_image_extent[2] <= c.max_image_extent[2]}

\* The window may be smaller or larger than anything the surface allows.
InnerSizes == (0..(MaxExtent + 1)) \X (0..(MaxExtent + 1))

SwapchainEnvironments ==
    {[devices |-> <<[DefaultDevice EXCEPT !.capabilities = Some(c)]>>,
      inner_size |-> DefaultInnerSize] :
        c \in ImageCountCapabilities \cup FormatCapabilities
                \cup PresentModeCapabilities}
    \cup
    {[devices |-> <<[d EXCEPT !.capabilities = Some(c)]>>, inner_size |-> size] :
        d \in {DefaultDevice, PhysicalDevice(<<GraphicsOnly, PresentOnly>>, TRUE,
                                             Some(DefaultCapabilities))},
        c \in ExtentCapabilities,
        size \in InnerSizes}

Environments ==
    ResolutionEnvironments \cup EnumerationEnvironments \cup SwapchainEnvironments

(***************************************************************************)
(* Init: the state when main, or a caller of Display::create, starts.      *)
(***************************************************************************)
Init ==
    /\ \E e \in Environments :
        /\ devices = e.devices
        /\ inner_size = e.inner_size
    /\ program \in {"Application", "Display"}
    /\ pc = "create_instance"
    /\ error = None
    /\ physical_device = None
    /\ indices = None
    /\ queue_requests = <<>>
    /\ graphics_queue = None
    /\ present_queue = None
    /\ resolutions = <<>>
    /\ swapchain = None
    /\ framebuffer_images = 0
    /\ control_flow = "Poll"
    /\ last_event = None
    /\ surface_out_of_date = FALSE
    /\ render_calls = <<>>

(***************************************************************************)
(* The stages of Application::initialize and Display::create.  A stage     *)
(* that returns Err ends the function through `?`: no later stage runs.    *)
(***************************************************************************)
Fails(stage) ==
    /\ pc' = "failed"
    /\ error' = Some(stage)

Panics(stage) ==
    /\ pc' = "panicked"
    /\ error' = Some(stage)

\* create_instance()?; the library call may fail.
CreateInstance ==
    /\ pc = "create_instance"
    /\ \E ok \in BOOLEAN :
        IF ok
        THEN pc' = "build_vk_surface" /\ error' = error
        ELSE Fails("create_instance")
    /\ UNCHANGED <<environment, device_state, swapchain_state, loop_state>>

\* WindowBuilder ... build_vk_surface(&event_loop, instance.clone())?
BuildSurface ==
    /\ pc = "build_vk_surface"
    /\ \E ok \in BOOLEAN :
        IF ok
        THEN pc' = "pick_physical_device" /\ error' = error
        ELSE Fails("build_vk_surface")
    /\ UNCHANGED <<environment, device_state, swapchain_state, loop_state>>

\* The resolver each entry point calls, in is_device_suitable and again in
\* create_logical_device: Application::find_queue_families or
\* QueueFamilyIndices::find.
resolve(entry, families) ==
    IF entry = "Application"
    THEN find_queue_families(families)
    ELSE find(families)

\* pick_physical_device(&surface, &instance)?  The predicate resolves the queue
\* families of every device it is called on, the one it panics on included.
PickPhysicalDevice ==
    /\ pc = "pick_physical_device"
    /\ LET picked == IF program = "Application"
                     THEN Application_pick_physical_device(devices)
                     ELSE pick_physical_device(devices)
       IN  /\ CASE picked.kind = "Ok" ->
                       /\ physical_device' = picked.device
                       /\ pc' = "create_logical_device"
                       /\ error' = error
                [] picked.kind = "Err" ->
                       /\ Fails("pick_physical_device")
                       /\ physical_device' = physical_device
                [] picked.kind = "Panic" ->
                       /\ Panics("pick_physical_device")
                       /\ physical_device' = physical_device
           /\ resolutions' =
                  [k \in 1..picked.examined |->
                      [device |-> k - 1,
                       result |-> resolve(program, devices[k].families)]]
    /\ UNCHANGED <<environment, indices, queue_requests, graphics_queue,
                   present_queue, swapchain_state, loop_state>>

\* create_logical_device.  Application: PhysicalDevice::from_index, then
\* find_queue_families(..)?, the unwraps of the two indices (a panic on None),
\* Device::new(..)? and the two queues.  Display: find(..)?, unique_indices,
\* Device::new(..)?, take_queues(..)?.
CreateLogicalDevice ==
    /\ pc = "create_logical_device"
    /\ LET families == devices[unwrap(physical_device) + 1].families
           found == resolve(program, families)
       IN  /\ resolutions' =
                  Append(resolutions,
                         [device |-> unwrap(physical_device), result |-> found])
           /\ IF ~found.ok
              THEN /\ Fails("create_logical_device")
                   /\ UNCHANGED logical_device
              ELSE IF ~is_complete(found)
              THEN /\ Panics("create_logical_device")
                   /\ UNCHANGED logical_device
              ELSE \E device_created \in BOOLEAN :
                   LET requests == unique_indices(found)
                       queues == device_new_queues(requests)
                       taken == take_queues(found, queues)
                   IN  IF device_created
                       THEN /\ indices' = Some(found)
                            /\ queue_requests' = requests
                            /\ graphics_queue' = Some(taken.graphics_queue)
                            /\ present_queue' = Some(taken.present_queue)
                            /\ pc' = IF program = "Application"
                                     THEN "main_loop" ELSE "create_swap_chain"
                            /\ error' = error
                            /\ UNCHANGED physical_device
                       ELSE /\ Fails("create_logical_device")
                            /\ UNCHANGED logical_device
    /\ UNCHANGED <<environment, swapchain_state, loop_state>>

\* create_swap_chain: surface.capabilities(*physical_device)?, the five
\* choices, Swapchain::new(..)?
CreateSwapChain ==
    /\ pc = "create_swap_chain"
    /\ LET capabilities == devices[unwrap(physical_device) + 1].capabilities
       IN  IF ~is_some(capabilities)
           THEN /\ Fails("create_swap_chain")
                /\ UNCHANGED swapchain
           ELSE \E swapchain_created \in BOOLEAN :
                IF swapchain_created
                THEN /\ swapchain' = Some(create_swap_chain(
                                        inner_size, unwrap(capabilities),
                                        unwrap(graphics_queue),
                                        unwrap(present_queue)))
                     /\ pc' = "create_render_pass"
                     /\ error' = error
                ELSE /\ Fails("create_swap_chain")
                     /\ UNCHANGED swapchain
    /\ UNCHANGED <<environment, device_state, framebuffer_images, loop_state>>

\* swapchain::create_render_pass(&device, swapchain.format())?
CreateRenderPass ==
    /\ pc = "create_render_pass"
    /\ \E ok \in BOOLEAN :
        IF ok
        THEN pc' = "create_framebuffers" /\ error' = error
        ELSE Fails("create_render_pass")
    /\ UNCHANGED <<environment, device_state, swapchain_state, loop_state>>

\* create_framebuffers: one framebuffer per swapchain image; then Ok(Display).
CreateFramebuffers ==
    /\ pc = "create_framebuffers"
    /\ framebuffer_images' = unwrap(swapchain).image_count
    /\ pc' = "initialized"
    /\ UNCHANGED <<environment, error, device_state, swapchain, loop_state>>

(***************************************************************************)
(* Application::main_loop: the closure given to event_loop.run.  It sets   *)
(* *control_flow to Poll, then matches the event.  Every event other than  *)
(* CloseRequested and MainEventsCleared falls to the `_ => ()` arm; a      *)
(* Resized event tells that the window system has changed the surface.     *)
(***************************************************************************)
OtherEvents == {"NewEvents", "Resized", "RedrawRequested", "RedrawEventsCleared"}

\* Application::render.
render == <<"request_redraw">>

HandleCloseRequested ==
    /\ pc = "main_loop"
    /\ control_flow = "Poll"
    /\ control_flow' = "Exit"
    /\ last_event' = Some("CloseRequested")
    /\ UNCHANGED <<environment, pc, error, device_state, swapchain_state,
                   surface_out_of_date, render_calls>>

\* A mutant of the MainEventsCleared arm: it leaves Exit in *control_flow.
HandleMainEventsCleared_MutantExit ==
    /\ pc = "main_loop"
    /\ control_flow = "Poll"
    /\ control_flow' = "Exit"
    /\ last_event' = Some("MainEventsCleared")
    /\ render_calls' = render
    /\ UNCHANGED <<environment, pc, error, device_state, swapchain_state,
                   surface_out_of_date>>

HandleMainEventsCleared ==
    /\ pc = "main_loop"
    /\ control_flow = "Poll"
    /\ control_flow' = "Poll"
    /\ last_event' = Some("MainEventsCleared")
    /\ render_calls' = render
    /\ UNCHANGED <<environment, pc, error, device_state, swapchain_state,
                   surface_out_of_date>>

HandleOtherEvent ==
    /\ pc = "main_loop"
    /\ control_flow = "Poll"
    /\ \E event \in OtherEvents :
        /\ last_event' = Some(event)
        /\ surface_out_of_date' = (surface_out_of_date \/ event = "Resized")
    /\ control_flow' = "Poll"
    /\ UNCHANGED <<environment, pc, error, device_state, swapchain_state,
                   render_calls>>

\* The event loop stops once the closure has left Exit in *control_flow.
LoopExit ==
    /\ pc = "main_loop"
    /\ control_flow = "Exit"
    /\ pc' = "exited"
    /\ UNCHANGED <<environment, error, device_state, swapchain_state, loop_state>>

Next ==
    \/ CreateInstance
    \/ BuildSurface
    \/ PickPhysicalDevice
    \/ CreateLogicalDevice
    \/ CreateSwapChain
    \/ CreateRenderPass
    \/ CreateFramebuffers
    \/ HandleCloseRequested
    \/ HandleMainEventsCleared
    \/ HandleOtherEvent
    \/ LoopExit

Spec == Init /\ [][Next]_vars

\* event_loop.run never blocks under ControlFlow::Poll and returns control to
\* the window system after each call of the closure, which stops the loop
\* once it finds Exit: the exit step is taken whenever it stays enabled.
FairSpec == Spec /\ WF_vars(LoopExit)

(***************************************************************************)
(* Properties.                                                             *)
(***************************************************************************)
PickedDevice == devices[unwrap(physical_device) + 1]

Lowest(S) == CHOOSE x \in S : \A y \in S : x <= y
Highest(S) == CHOOSE x \in S : \A y \in S : x >= y

\* The 0-based indices of the families with each role.
GraphicsIndices(families) ==
    {k - 1 : k \in {j \in 1..Len(families) : families[j].supports_graphics}}
PresentIndices(families) ==
    {k - 1 : k \in {j \in 1..Len(families) : families[j].is_supported = "Ok(true)"}}

\* The lowest index by which a family of each role has been seen.
BothKnownAt(families) ==
    Max(Lowest(GraphicsIndices(families)), Lowest(PresentIndices(families)))

C2_SharingMode ==
    is_some(swapchain) =>
        LET found == unwrap(indices)
            sharing == unwrap(swapchain).sharing_mode
            g == unwrap(found.graphics_family)
            q == unwrap(found.present_family)
        IN  /\ sharing.mode = "Exclusive" <=> g = q
            /\ g # q => /\ sharing.mode = "Concurrent"
                        /\ sharing.queue_families = <<g, q>>

\* The four clauses of the suitability predicate, as the specification lists
\* them.
FourClauses(device) ==
    /\ \E k \in 1..Len(device.families) : device.families[k].supports_graphics
    /\ \E k \in 1..Len(device.families) :
            device.families[k].is_supported = "Ok(true)"
    /\ device.khr_swapchain
    /\ is_some(device.capabilities)
    /\ unwrap(device.capabilities).supported_formats # <<>>
    /\ unwrap(device.capabilities).present_modes # {}

\* pick_physical_device has run / has returned Err.
PickRan == is_some(physical_device) \/ error = Some("pick_physical_device")
PickFailed == pc = "failed" /\ error = Some("pick_physical_device")

\* C3, as stated: device selection accepts a device if and only if all four
\* clauses hold of it.  The picked device was accepted, every device before
\* it was rejected, and after a failed selection every device was rejected.
C3_AcceptedIffFourClauses ==
    /\ is_some(physical_device) =>
            /\ FourClauses(PickedDevice)
            /\ \A k \in 1..unwrap(physical_device) : ~FourClauses(devices[k])
    /\ PickFailed => \A k \in 1..Len(devices) : ~FourClauses(devices[k])

\* What the predicate of each entry point answers for a device.
Suitable(device) ==
    IF program = "Application"
    THEN Application_is_device_suitable(device)
    ELSE is_device_suitable(device).value

\* C4, as stated: pick_physical_device returns the suitable device with the
\* lowest position, and returns an error exactly when no enumerated device is
\* suitable, including when there are no devices at all.
C4_FirstSuitableOrError ==
    PickRan =>
        IF \E k \in 1..Len(devices) : Suitable(devices[k])
        THEN /\ ~PickFailed
             /\ is_some(physical_device)
             /\ unwrap(physical_device) + 1 =
                    Lowest({k \in 1..Len(devices) : Suitable(devices[k])})
        ELSE PickFailed

\* The capabilities create_swap_chain negotiated against.
PickedCapabilities == unwrap(PickedDevice.capabilities)

\* C5: with a reported maximum no smaller than the minimum, the image count
\* lies in [min_image_count, max_image_count]; with no maximum it is
\* min_image_count + 1; min 3, max 3 gives 3.
C5_ImageCount ==
    is_some(swapchain) =>
        LET lo == PickedCapabilities.min_image_count
            hi == PickedCapabilities.max_image_count
            n == unwrap(swapchain).image_count
        IN  /\ (is_some(hi) /\ lo <= unwrap(hi)) => (lo <= n /\ n <= unwrap(hi))
            /\ ~is_some(hi) => n = lo + 1
            /\ (lo = 3 /\ hi = Some(3)) => n = 3

\* C5's case: scenario B, where min + 1 exceeds the maximum.
C5_Witness ==
    /\ is_some(swapchain)
    /\ PickedCapabilities.min_image_count = 3
    /\ PickedCapabilities.max_image_count = Some(3)
    /\ unwrap(swapchain).image_count = 3

PreferredFormat == <<"B8G8R8A8Srgb", "SrgbNonLinear">>

\* C6: for a non-empty list of supported formats, the pair chosen is
\* (B8G8R8A8Srgb, SrgbNonLinear) whenever it occurs at any position of the
\* list, and the first pair of the list otherwise.
C6_FormatSelection ==
    is_some(swapchain) =>
        LET formats == PickedCapabilities.supported_formats
            chosen == <<unwrap(swapchain).format, unwrap(swapchain).color_space>>
        IN  IF \E k \in 1..Len(formats) : formats[k] = PreferredFormat
            THEN chosen = PreferredFormat
            ELSE chosen = formats[1]

\* C6's case: the preferred pair is chosen from a later position, behind a
\* pair that shares its format.
C6_Witness ==
    /\ is_some(swapchain)
    /\ Len(PickedCapabilities.supported_formats) >= 2
    /\ PickedCapabilities.supported_formats[1] =
           <<"B8G8R8A8Srgb", "ExtendedSrgbLinear">>
    /\ PickedCapabilities.supported_formats[2] = PreferredFormat
    /\ unwrap(swapchain).color_space = "SrgbNonLinear"

\* x brought into [lower, upper].
Clamped(x, lower, upper) ==
    IF x < lower THEN lower ELSE IF x > upper THEN upper ELSE x

\* C7: the extent is the surface's current extent when one is reported;
\* otherwise each component is the window's physical size clamped into
\* [min_image_extent, max_image_extent], and so lies within those bounds.
C7_Extent ==
    is_some(swapchain) =>
        LET c == PickedCapabilities
            extent == unwrap(swapchain).extent
        IN  IF is_some(c.current_extent)
            THEN extent = unwrap(c.current_extent)
            ELSE \A k \in 1..2 :
                    /\ extent[k] = Clamped(inner_size[k], c.min_image_extent[k],
                                           c.max_image_extent[k])
                    /\ c.min_image_extent[k] <= extent[k]
                    /\ extent[k] <= c.max_image_extent[k]

\* C7's case: no current extent, a window narrower than the smallest extent
\* and taller than the largest.
C7_Witness ==
    /\ is_some(swapchain)
    /\ ~is_some(PickedCapabilities.current_extent)
    /\ inner_size[1] < PickedCapabilities.min_image_extent[1]
    /\ inner_size[2] > PickedCapabilities.max_image_extent[2]
    /\ unwrap(swapchain).extent =
           <<PickedCapabilities.min_image_extent[1],
             PickedCapabilities.max_image_extent[2]>>

\* C8, as stated: on every redraw tick the frame renderer acquires an image,
\* submits the command buffer of the acquired image, presents that image and
\* waits for the submitted work, in that order.
C8_FrameSequence ==
    last_event = Some("MainEventsCleared") =>
        render_calls = <<"acquire_next_image", "submit", "present", "wait">>

\* C9, as stated: a redraw tick on a stale surface rebuilds the generation
\* (swapchain, framebuffers, pipeline, command buffers) once before the next
\* frame, so no redraw tick ends with the surface still out of date.
C9_RebuildBeforeNextFrame ==
    (last_event = Some("MainEventsCleared") /\ surface_out_of_date) =>
        /\ is_some(swapchain)
        /\ \E k \in 1..Len(render_calls) : render_calls[k] = "recreate_swapchain"

(***************************************************************************)
(* Queue family resolution, over every call the program has made.          *)
(***************************************************************************)
ResolvedFamilies(r) == devices[r.device + 1].families

\* The surface-support query failed for a family the resolution examined.
QueryFailed(r) ==
    \E k \in 1..r.result.examined : ResolvedFamilies(r)[k].is_supported = "Err"

\* Every family was examined and one of the two roles was found in none.
RoleMissing(r) ==
    /\ r.result.examined = Len(ResolvedFamilies(r))
    /\ ~QueryFailed(r)
    /\ \/ GraphicsIndices(ResolvedFamilies(r)) = {}
       \/ PresentIndices(ResolvedFamilies(r)) = {}

\* C11, as stated: resolution fails with an error if the surface-support
\* query fails for a family it examines, or if after examining every family a
\* role is missing; it never reports success with a missing role and never
\* reports incompleteness without having examined every family.
C11_ErrorOnQueryFailureOrMissingRole ==
    \A i \in 1..Len(resolutions) :
        LET r == resolutions[i]
        IN  /\ QueryFailed(r) => ~r.result.ok
            /\ RoleMissing(r) => ~r.result.ok
            /\ r.result.ok => is_complete(r.result)
            /\ (~r.result.ok /\ ~QueryFailed(r)) =>
                   r.result.examined = Len(ResolvedFamilies(r))

\* C11, amended: a failing query makes either resolver return an error.  A
\* missing role makes QueueFamilyIndices::find return an error, and makes
\* Application::find_queue_families return Ok with indices that are not
\* complete; neither returns Ok with complete indices when a role is missing,
\* and neither reports a missing role without having examined every family.
C11_ErrorOrIncompleteIndices ==
    \A i \in 1..Len(resolutions) :
        LET r == resolutions[i]
        IN  /\ QueryFailed(r) => ~r.result.ok
            /\ RoleMissing(r) =>
                   IF program = "Application"
                   THEN r.result.ok /\ ~is_complete(r.result)
                   ELSE ~r.result.ok
            /\ program = "Display" => (r.result.ok => is_complete(r.result))
            /\ (r.result.ok /\ is_complete(r.result)) => ~RoleMissing(r)
            /\ (~QueryFailed(r) /\ ~(r.result.ok /\ is_complete(r.result))) =>
                   r.result.examined = Len(ResolvedFamilies(r))

\* C11's case: a device of several families, none of which can present, has
\* been resolved: an error from find, incomplete indices from
\* find_queue_families.
C11_Witness ==
    \E i \in 1..Len(resolutions) :
        /\ RoleMissing(resolutions[i])
        /\ Len(ResolvedFamilies(resolutions[i])) >= 2
        /\ is_some(resolutions[i].result.graphics_family)
        /\ ~is_some(resolutions[i].result.present_family)

\* C12: the logical device is created with exactly one queue request when the
\* graphics and present family indices are equal and with exactly two, the
\* graphics family first and the present family second, when they differ; the
\* graphics and present queues returned are the same queue if and only if the
\* two indices are equal.
C12_QueueRequests ==
    is_some(graphics_queue) =>
        LET graphics == unwrap(unwrap(indices).graphics_family)
            present == unwrap(unwrap(indices).present_family)
        IN  /\ graphics = present => queue_requests = <<graphics>>
            /\ graphics # present => queue_requests = <<graphics, present>>
            /\ (unwrap(graphics_queue) = unwrap(present_queue))
                   <=> (graphics = present)

\* C12's case: a logical device created for two different families, the
\* present family the lower of the two.
C12_Witness ==
    /\ is_some(graphics_queue)
    /\ unwrap(unwrap(indices).present_family)
           < unwrap(unwrap(indices).graphics_family)
    /\ Len(queue_requests) = 2
    /\ unwrap(graphics_queue) # unwrap(present_queue)

(***************************************************************************)
(* The stages of initialization.                                           *)
(***************************************************************************)
\* What each stage leaves behind, in the order of the stages.
PhysicalDevicePicked == is_some(physical_device)
LogicalDeviceCreated == is_some(graphics_queue) /\ is_some(present_queue)
SwapchainCreated == is_some(swapchain)
FramebuffersCreated == framebuffer_images > 0

\* The stages that had not run when the given stage failed left nothing.
NothingFrom(stage) ==
    /\ stage \in {"create_instance", "build_vk_surface", "pick_physical_device"}
           => ~PhysicalDevicePicked
    /\ stage \in {"create_instance", "build_vk_surface", "pick_physical_device",
                  "create_logical_device"}
           => ~LogicalDeviceCreated /\ queue_requests = <<>>
    /\ stage \in {"create_instance", "build_vk_surface", "pick_physical_device",
                  "create_logical_device", "create_swap_chain"}
           => ~SwapchainCreated
    /\ ~FramebuffersCreated

\* C13, as stated: the stages run in the order instance, surface, physical
\* device selection, logical device and queues, swapchain, render pass,
\* framebuffers; a stage that fails returns the failure as an error value to
\* the caller of initialize, no later stage is executed, no renderer value is
\* produced and the main loop is never entered.
C13_StagesInOrderFailureReturned ==
    /\ pc = "create_logical_device" => PhysicalDevicePicked
    /\ LogicalDeviceCreated => PhysicalDevicePicked
    /\ pc \in {"create_swap_chain", "main_loop"} => LogicalDeviceCreated
    /\ SwapchainCreated => LogicalDeviceCreated
    /\ pc \in {"create_render_pass", "create_framebuffers"} => SwapchainCreated
    /\ FramebuffersCreated => SwapchainCreated
    /\ pc = "initialized" => FramebuffersCreated
    /\ is_some(error) =>
           /\ pc = "failed"
           /\ NothingFrom(unwrap(error))
           /\ last_event = None
           /\ control_flow = "Poll"

\* C14, as stated: a device that fails a clause of the suitability check, a
\* failing surface-support or surface-capabilities query included, never
\* makes device selection fail: the check yields false, the device is skipped
\* and enumeration continues with the next device, so selection ends with a
\* device whenever a suitable one is enumerated and never ends by aborting.
C14_RejectionNeverAborts ==
    PickRan =>
        /\ ~(pc = "panicked" /\ error = Some("pick_physical_device"))
        /\ (\E k \in 1..Len(devices) : Suitable(devices[k]))
               => is_some(physical_device)

\* C15: a window-close request is the only event that terminates the event
\* loop.  After a CloseRequested event is handled the control flow is Exit and
\* the loop eventually stops; after any other event, the idle tick that
\* triggers a redraw included, the control flow is Poll and the loop keeps
\* running; the loop has stopped only after a CloseRequested event.
C15_OnlyCloseRequestedTerminates ==
    /\ [](last_event = Some("CloseRequested") => control_flow = "Exit")
    /\ []((is_some(last_event) /\ last_event # Some("CloseRequested")) =>
              (control_flow = "Poll" /\ pc = "main_loop"))
    /\ [](pc = "exited" => last_event = Some("CloseRequested"))
    /\ (last_event = Some("CloseRequested")) ~> (pc = "exited")

\* C15's case: the loop has stopped after a close request that followed a
\* redraw tick.
C15_Witness ==
    /\ pc = "exited"
    /\ last_event = Some("CloseRequested")
    /\ control_flow = "Exit"
    /\ render_calls = render

\* C16: in Application::initialize, create_logical_device never unwraps an
\* absent family index.  Device selection either ends with an error or
\* returns the position of a device for which find_queue_families yields
\* both a graphics and a present index, in device selection and again in
\* create_logical_device, so both indices are present when the logical
\* device is created.
C16_NoUnwrapOfAbsentIndex ==
    program = "Application" =>
        /\ ~(pc = "panicked" /\ error = Some("create_logical_device"))
        /\ PickRan => (PickFailed \/ is_some(physical_device))
        /\ is_some(physical_device) =>
               \A i \in 1..Len(resolutions) :
                   resolutions[i].device = unwrap(physical_device) =>
                       /\ resolutions[i].result.ok
                       /\ is_complete(resolutions[i].result)
        /\ LogicalDeviceCreated =>
               (is_some(indices) /\ is_complete(unwrap(indices)))

\* C16's case: Application::initialize has created the logical device of the
\* second device, after rejecting a first device whose indices were not
\* complete.
C16_Witness ==
    /\ program = "Application"
    /\ LogicalDeviceCreated
    /\ physical_device = Some(1)
    /\ Len(resolutions) = 3
    /\ resolutions[1].result.ok
    /\ ~is_complete(resolutions[1].result)
    /\ resolutions[3].device = 1

\* C17: whenever queue family resolution succeeds, both returned indices are
\* valid positions in the device's queue family list, the family at the
\* graphics index supports graphics and the family at the present index can
\* present to the surface; no index is returned of a family lacking the role
\* it was chosen for, and every family index handed to Device::new is a
\* position of the picked device's list.
C17_ReturnedIndicesHaveTheirRole ==
    /\ \A i \in 1..Len(resolutions) :
           LET r == resolutions[i].result
               families == ResolvedFamilies(resolutions[i])
           IN  r.ok =>
                   /\ program = "Display" => is_complete(r)
                   /\ is_some(r.graphics_family) =>
                          /\ unwrap(r.graphics_family) \in 0..(Len(families) - 1)
                          /\ families[unwrap(r.graphics_family) + 1].supports_graphics
                   /\ is_some(r.present_family) =>
                          /\ unwrap(r.present_family) \in 0..(Len(families) - 1)
                          /\ families[unwrap(r.present_family) + 1].is_supported
                                 = "Ok(true)"
    /\ \A k \in 1..Len(queue_requests) :
           queue_requests[k] \in 0..(Len(PickedDevice.families) - 1)

\* C17's case: QueueFamilyIndices::find has succeeded on a device of three
\* families with two different indices, one family lacking each role.
C17_Witness ==
    /\ program = "Display"
    /\ \E i \in 1..Len(resolutions) :
           LET r == resolutions[i].result
               families == ResolvedFamilies(resolutions[i])
           IN  /\ r.ok
               /\ Len(families) = 3
               /\ r.graphics_family # r.present_family
               /\ ~families[unwrap(r.present_family) + 1].supports_graphics
               /\ families[unwrap(r.graphics_family) + 1].is_supported = "Ok(false)"

====
